---- MODULE Spec2Model ----
(***************************************************************************)
(* Petri-net analysis: symbolic (BDD) reachability, explicit BFS           *)
(* reachability, ILP-driven deadlock search and marking optimisation.      *)
(*                                                                         *)
(* A BDD is modelled by the Boolean function it denotes: the set of its    *)
(* satisfying assignments, an assignment being the set of declared         *)
(* variable names it makes true.  Two BDDs are equal iff these sets are    *)
(* equal (canonicity of reduced ordered BDDs).                             *)
(***************************************************************************)
EXTENDS Integers, Sequences, FiniteSets, TLC

\* ------------------------------------------------------------------ bounds
MaxPlaces == 2
MaxTrans == 2
MaxArcs == 3
MaxElems == 3

\* ------------------------------------------------------- input universes
\* Place identifiers, listed in Python's string order (sorted()).
SortedIds == <<"p0", "p0_p", "p1", "p2", "p3">>
\* Place-id families the nets are drawn from: plain ids, and ids where one
\* id is another id followed by "_p".
PlainIds == <<"p0", "p1", "p2", "p3">>
ClashIds == <<"p0", "p0_p", "p1", "p2">>
TransIds == <<"t0", "t1", "t2", "t3">>
TokenCounts == {0, 1, 2}
WeightVals == {-1, 1, 5}

Min(a, b) == IF a < b THEN a ELSE b

Prefix(s, k) == {s[i] : i \in 1..Min(k, Len(s))}

PlaceIdSets ==
    {Prefix(PlainIds, k) : k \in 1..MaxPlaces} \cup {Prefix(ClashIds, k) : k \in 2..MaxPlaces}

TransIdSets == {Prefix(TransIds, k) : k \in 1..MaxTrans}

RECURSIVE SubsetsUpTo(_, _)
SubsetsUpTo(S, k) ==
    IF k = 0 THEN {{}}
    ELSE LET prev == SubsetsUpTo(S, k - 1)
         IN prev \cup {s \cup {x} : s \in prev, x \in S}

\* Arcs a validated net may hold: both endpoints exist, one is a place and
\* the other a transition (PetriNet.validate).
ValidArcs(P, Tr) ==
    {[source |-> p, target |-> t] : p \in P, t \in Tr}
        \cup {[source |-> t, target |-> p] : t \in Tr, p \in P}

Pow2(n) == 2 ^ n

\* ------------------------------------------------------------------ state
VARIABLES
    net,            \* the validated PetriNet: places, transitions, arcs
    cls,            \* the engine class constructed on the net
    pc,             \* control position of the engine
    op,             \* public operation in flight or last returned
    reachable_bdd,  \* self.reachable_bdd: <<>> is None, <<f>> a cached BDD
    R,              \* compute_reachable_set: local R / R_curr
    T,              \* compute_reachable_set: local T / Trans_Rel
    iterations,     \* compute_reachable_set: local iterations
    count,          \* compute_reachable_set: local count (the printed size)
    weights,        \* optimize_marking: argument weights
    prob,           \* the pulp.LpProblem: objective and constraints
    attempts,       \* find_deadlock / optimize_marking: local attempts
    cands,          \* candidate_marking of each loop iteration so far
    ret             \* value returned by the last operation

svars == <<net, cls, pc, op, reachable_bdd, R, T, iterations, count, weights, prob,
           attempts, cands, ret>>

\* state of one call of parse_pnml
VARIABLES
    root,           \* the elements root.iter() yields, in document order
    idx,            \* position of the for-loop over root.iter()
    places,         \* parse_pnml: local places, in insertion order
    transitions,    \* parse_pnml: local transitions, in insertion order
    arcs,           \* parse_pnml: local arcs
    ppc,            \* control position of parse_pnml
    exc             \* lines of the PNMLParserError raised, <<>> if none

pvars == <<root, idx, places, transitions, arcs, ppc, exc>>
allvars == <<svars, pvars>>

\* ------------------------------------------------------------ net model
Places == DOMAIN net.places

\* self.sorted_places / self.vars
sorted_places == SelectSeq(SortedIds, LAMBDA x : x \in Places)
vars == sorted_places
VarSet == {vars[i] : i \in 1..Len(vars)}

\* next_var = f"{p_id}_p"
NextVar(p_id) == p_id \o "_p"
next_vars == [i \in 1..Len(vars) |-> NextVar(vars[i])]
NextVarSet == {next_vars[i] : i \in 1..Len(next_vars)}

\* self.rename_map[next_var] = curr_var
rename_map == [v \in NextVarSet |-> CHOOSE p \in VarSet : NextVar(p) = v]

\* every name passed to self.bdd.declare
Declared == VarSet \cup NextVarSet

\* _build_structure
preset ==
    [t \in net.transitions |->
        {a.source : a \in {b \in net.arcs : b.source \in Places /\ b.target = t}}]
postset ==
    [t \in net.transitions |->
        {a.target : a \in {b \in net.arcs : b.source = t /\ b.target \in Places}}]

\* ------------------------------------------------------------ BDD manager
Assignments == SUBSET Declared
BddFalse == {}

\* bdd.apply('and', u, v)
And(u, v) == u \cap v

\* apply('or', R, next_s) that forgets R
Or_SecondOnly(u, v) == v

\* bdd.apply('or', u, v)
Or(u, v) == u \cup v

\* variables the function really depends on
Support(u) ==
    {x \in Declared : \E a \in Assignments : (a \in u) # ((a \cup {x}) \ (a \cap {x}) \in u)}

\* bdd.exist(qvars, u)
Exist(qvars, u) == {a \in Assignments : \E b \in u : a \ qvars = b \ qvars}

\* bdd.rename(u, dvars) is defined when no key of dvars is also a value and
\* u does not depend on a value; otherwise the call raises.
RenameValid(u, dvars) ==
    LET vals == {dvars[k] : k \in DOMAIN dvars}
    IN  /\ (DOMAIN dvars) \cap vals = {}
        /\ Support(u) \cap vals = {}

Rename(u, dvars) ==
    LET vals == {dvars[k] : k \in DOMAIN dvars}
        Back(a) == (a \ (DOMAIN dvars)) \cup {k \in DOMAIN dvars : dvars[k] \in a}
    IN  {a \in Assignments : \E b \in u : b \ vals = Back(a) \ vals}

\* bdd.count(u, nvars)
Count(u, nvars) == Cardinality(u) \div Pow2(Cardinality(Declared) - nvars)

\* markings (sets of marked places) denoted by a BDD over the current vars
Markings(u) == {a \cap VarSet : a \in u}

\* add_expr of "l1 & l2 & ..." with li = p or !p according to m
MarkingBdd(m) == {a \in Assignments : a \cap VarSet = m}

\* ------------------------------------------------------ symbolic encoding
\* binarised initial marking
InitialMarking == {p \in Places : net.places[p].initial_marking > 0}

\* an initial formula no marking satisfies
build_initial_marking_expr_Empty == BddFalse

\* add_expr(build_initial_marking_expr())
build_initial_marking_expr ==
    {a \in Assignments :
        \A p_id \in VarSet :
            IF net.places[p_id].initial_marking > 0 THEN p_id \in a ELSE p_id \notin a}

\* TransLogic without the enabling condition (the preset literals)
TransLogic_NoEnabling(t_id, a) ==
    LET pre == preset[t_id]
        post == postset[t_id]
    IN  \A p_curr \in VarSet :
            LET p_next == NextVar(p_curr)
            IN  IF p_curr \in pre /\ p_curr \notin post THEN p_next \notin a
                ELSE IF p_curr \in post /\ p_curr \notin pre THEN p_next \in a
                ELSE IF p_curr \in pre /\ p_curr \in post THEN p_next \in a
                ELSE (p_curr \in a) <=> (p_next \in a)

\* TransLogic without the postset-only branch (produced places fall to the
\* frame axiom)
TransLogic_NoProduce(t_id, a) ==
    LET pre == preset[t_id]
        post == postset[t_id]
    IN  /\ \A p \in pre : p \in a
        /\ \A p_curr \in VarSet :
              LET p_next == NextVar(p_curr)
              IN  IF p_curr \in pre /\ p_curr \notin post THEN p_next \notin a
                  ELSE IF p_curr \in pre /\ p_curr \in post THEN p_next \in a
                  ELSE (p_curr \in a) <=> (p_next \in a)

\* the conjunction built for one transition
TransLogic(t_id, a) ==
    LET pre == preset[t_id]
        post == postset[t_id]
    IN  /\ \A p \in pre : p \in a
        /\ \A p_curr \in VarSet :
              LET p_next == NextVar(p_curr)
              IN  IF p_curr \in pre /\ p_curr \notin post THEN p_next \notin a
                  ELSE IF p_curr \in post /\ p_curr \notin pre THEN p_next \in a
                  ELSE IF p_curr \in pre /\ p_curr \in post THEN p_next \in a
                  ELSE (p_curr \in a) <=> (p_next \in a)

\* add_expr(build_transition_relation_expr())
build_transition_relation_expr ==
    {a \in Assignments : \E t_id \in net.transitions : TransLogic(t_id, a)}

\* ------------------------------------------------- explicit reachability
\* dict order of net.transitions (insertion order of the parser)
TransOrder == SelectSeq(TransIds, LAMBDA t : t \in net.transitions)

\* convert_net_to_bfs_format: (initial_marking_set, transitions_dict)
convert_net_to_bfs_format ==
    [initial_marking_set |-> {p \in Places : net.places[p].initial_marking > 0},
     transitions_dict |->
        [t_id \in net.transitions |->
            [pre |-> {a.source : a \in {b \in net.arcs :
                          b.source \in Places /\ b.target = t_id}},
             post |-> {a.target : a \in {b \in net.arcs :
                          b.source = t_id /\ b.target \in Places}}]]]

\* the for-loop over all_transitions.items() for one dequeued marking
RECURSIVE BfsFire(_, _, _, _, _)
BfsFire(visited, queue, current_marking, ts, all_transitions) ==
    IF ts = <<>> THEN [visited |-> visited, queue |-> queue]
    ELSE LET pre_set == all_transitions[Head(ts)].pre
             post_set == all_transitions[Head(ts)].post
         IN  IF pre_set \subseteq current_marking
             THEN LET temp_marking == current_marking \ pre_set
                      next_marking == temp_marking \cup post_set
                  IN  IF next_marking \notin visited
                      THEN BfsFire(visited \cup {next_marking}, Append(queue, next_marking),
                                   current_marking, Tail(ts), all_transitions)
                      ELSE BfsFire(visited, queue, current_marking, Tail(ts), all_transitions)
             ELSE BfsFire(visited, queue, current_marking, Tail(ts), all_transitions)

\* the while-queue loop
RECURSIVE BfsLoop(_, _, _)
BfsLoop(visited, queue, all_transitions) ==
    IF queue = <<>> THEN visited
    ELSE LET r == BfsFire(visited, Tail(queue), Head(queue), TransOrder, all_transitions)
         IN  BfsLoop(r.visited, r.queue, all_transitions)

find_reachable_markings_bfs(start_marking, all_transitions) ==
    BfsLoop({start_marking}, <<start_marking>>, all_transitions)

\* the set reachability.py prints for the net
BfsReachable ==
    find_reachable_markings_bfs(convert_net_to_bfs_format.initial_marking_set,
                                convert_net_to_bfs_format.transitions_dict)

\* ------------------------------------------------------------ ILP model
RECURSIVE SumOver(_, _)
SumOver(S, f) ==
    IF S = {} THEN 0
    ELSE LET x == CHOOSE y \in S : TRUE
         IN  f[x] + SumOver(S \ {x}, f)

\* value of a linear expression at a 0/1 assignment
LinValue(coef, x) == SumOver(Places, [p \in Places |-> coef[p] * x[p]])

BinaryAssignments == [Places -> {0, 1}]

NoProb == [objective |-> <<>>, constraints |-> <<>>]

\* assignments satisfying every constraint of the problem
Feasible(lp) ==
    {x \in BinaryAssignments :
        \A i \in 1..Len(lp.constraints) :
            LinValue(lp.constraints[i].coef, x) <= lp.constraints[i].rhs}

\* prob.solve(): status Optimal with one of the maximisers of the objective
Optimal(lp) ==
    {x \in Feasible(lp) :
        \A y \in Feasible(lp) : LinValue(lp.objective, y) <= LinValue(lp.objective, x)}

\* weights.get(p_id, 1): a place missing from the mapping counts 1
Get_DefaultOne(w, p_id, default) == IF p_id \in DOMAIN w THEN w[p_id] ELSE 1

\* weights.get(p_id, 0)
Get(w, p_id, default) == IF p_id \in DOMAIN w THEN w[p_id] ELSE default

\* the constraint with right-hand side len(pre_places): it disables nothing
DisableConstraint_NoMinusOne(t_id) ==
    [coef |-> [p \in Places |-> IF p \in preset[t_id] THEN 1 ELSE 0],
     rhs |-> Cardinality(preset[t_id])]

\* "Disable_{t_id}": lpSum(pre_places) <= len(pre_places) - 1
DisableConstraint(t_id) ==
    [coef |-> [p \in Places |-> IF p \in preset[t_id] THEN 1 ELSE 0],
     rhs |-> Cardinality(preset[t_id]) - 1]

\* find_deadlock as a pure feasibility problem, its objective zero
DeadlockProblem_NoObjective ==
    LET withPre == SelectSeq(TransOrder, LAMBDA t : preset[t] # {})
    IN  [objective |-> [p \in Places |-> 0],
         constraints |-> [i \in 1..Len(withPre) |-> DisableConstraint(withPre[i])]]

\* find_deadlock: maximise the number of tokens, disable every transition
\* whose preset is not empty (the others are skipped by `continue`)
DeadlockProblem ==
    LET withPre == SelectSeq(TransOrder, LAMBDA t : preset[t] # {})
    IN  [objective |-> [p \in Places |-> 1],
         constraints |-> [i \in 1..Len(withPre) |-> DisableConstraint(withPre[i])]]

\* OptimizeProblem with the unweighted objective of find_deadlock
OptimizeProblem_Unweighted(w) ==
    [objective |-> [p \in Places |-> 1],
     constraints |-> <<>>]

\* optimize_marking: maximise sum of weights.get(p, 0) * x_p, no constraint
OptimizeProblem(w) ==
    [objective |-> [p \in Places |-> Get(w, p, 0)],
     constraints |-> <<>>]

\* the cut without its lpSum(ones) term
CutConstraint_OnlyZeros(candidate_marking) ==
    LET ones == {p \in Places : candidate_marking[p] = 1}
        zeros == {p \in Places : candidate_marking[p] = 0}
    IN  [coef |-> [p \in Places |-> IF p \in zeros THEN -1 ELSE 0],
         rhs |-> -1]

\* the cut with right-hand side len(ones)
CutConstraint_OffByOne(candidate_marking) ==
    LET ones == {p \in Places : candidate_marking[p] = 1}
        zeros == {p \in Places : candidate_marking[p] = 0}
    IN  [coef |-> [p \in Places |-> IF p \in ones THEN 1 ELSE IF p \in zeros THEN -1 ELSE 0],
         rhs |-> Cardinality(ones)]

\* "Cut_{attempts}": lpSum(ones) - lpSum(zeros) <= len(ones) - 1
CutConstraint(candidate_marking) ==
    LET ones == {p \in Places : candidate_marking[p] = 1}
        zeros == {p \in Places : candidate_marking[p] = 0}
    IN  [coef |-> [p \in Places |-> IF p \in ones THEN 1 ELSE IF p \in zeros THEN -1 ELSE 0],
         rhs |-> Cardinality(ones) - 1]

\* prob rebuilt with the cut alone instead of prob += cut
AddCut_Replace(lp, candidate_marking) ==
    [lp EXCEPT !.constraints = <<CutConstraint(candidate_marking)>>]

\* prob += cut
AddCut(lp, candidate_marking) ==
    [lp EXCEPT !.constraints = Append(@, CutConstraint(candidate_marking))]

\* the marked places of a candidate
Ones(candidate_marking) == {p \in Places : candidate_marking[p] = 1}

\* intersection != self.bdd.false for the candidate's minterm
IsReachableCandidate(candidate_marking) ==
    And(MarkingBdd(Ones(candidate_marking)), reachable_bdd[1]) # BddFalse

\* ------------------------------------------------------------ return values
None == [kind |-> "None", val |-> 0]
RetMarking(m) == [kind |-> "marking", val |-> m]
RetCount(n) == [kind |-> "count", val |-> n]
RetBdd(u) == [kind |-> "bdd", val |-> u]

\* the mappings main passes for the file names it knows; on the nets drawn
\* here some of their keys are not places
PresetWeights ==
    {("p0" :> 1) @@ ("p1" :> 10) @@ ("p2" :> 20),
     ("p1" :> 5) @@ ("p2" :> 10),
     ("p_start" :> 10) @@ ("p_mid" :> 5)}

WeightMaps == UNION {[D -> WeightVals] : D \in SUBSET Places} \cup PresetWeights

\* ------------------------------------------------------------- PNML parser
\* elem.attrib.get(...) is None / the element has no <text> child
NoAttr == "<none>"
NoText == "<no text>"

Elem(tag, id, text, source, target) ==
    [tag |-> tag, id |-> id, text |-> text, source |-> source, target |-> target]

\* texts of <initialMarking>, and the value int(text) gives for those it
\* accepts; int raises ValueError on the others
MarkingTexts == {NoText, "1", "-1", "x"}
IntValue == ("0" :> 0) @@ ("1" :> 1) @@ ("2" :> 2) @@ ("-1" :> -1)

\* elements a description is made of: places, transitions and arcs, with
\* and without their attributes
PlaceElems ==
    {Elem("place", "p0", text, NoAttr, NoAttr) : text \in MarkingTexts}
        \cup {Elem("place", NoAttr, NoText, NoAttr, NoAttr)}
TransElems == {Elem("transition", id, NoText, NoAttr, NoAttr) : id \in {"t0", "p0", NoAttr}}
ArcElems ==
    {Elem("arc", "a0", NoText, e[1], e[2]) : e \in {"p0", "t0", "zz"} \X {"p0", "t0", "zz"}}
        \cup {Elem("arc", "a0", NoText, "p0", NoAttr)}
Elems == PlaceElems \cup TransElems \cup ArcElems
Documents == UNION {[1..k -> Elems] : k \in 0..MaxElems}

Ids(seq) == {seq[i].id : i \in DOMAIN seq}

\* the errors of one arc, in the order validate appends them
ArcErrors(pl, tr, arc) ==
    LET node_types(x) == IF x \in Ids(tr) THEN "transition"
                         ELSE IF x \in Ids(pl) THEN "place" ELSE "None"
        s_type == node_types(arc.source)
        t_type == node_types(arc.target)
    IN  (IF s_type = "None"
         THEN <<"Arc " \o arc.id \o " refers to non-existing source node '"
                    \o arc.source \o "'.">>
         ELSE <<>>)
        \o (IF t_type = "None"
            THEN <<"Arc " \o arc.id \o " refers to non-existing target node '"
                       \o arc.target \o "'.">>
            ELSE <<>>)
        \o (IF s_type # "None" /\ t_type # "None" /\ s_type = t_type
            THEN <<"Arc " \o arc.id \o " connects two " \o s_type \o "s ("
                       \o arc.source \o " -> " \o arc.target
                       \o "), which is not valid in a Petri net.">>
            ELSE <<>>)

\* concatenation of f over the members of seq, in order
RECURSIVE FlatMap(_, _)
FlatMap(f(_), seq) ==
    IF seq = <<>> THEN <<>> ELSE f(Head(seq)) \o FlatMap(f, Tail(seq))

\* PetriNet.validate: the list `errors`; validate raises iff it is not empty
validate(pl, tr, ar) ==
    LET dup(t) == IF t.id \in Ids(pl)
                  THEN <<"Duplicate id between place and transition: " \o t.id>>
                  ELSE <<>>
        arcErr(a) == ArcErrors(pl, tr, a)
    IN  (IF pl = <<>> THEN <<"The net has no places.">> ELSE <<>>)
        \o (IF tr = <<>> THEN <<"The net has no transitions.">> ELSE <<>>)
        \o FlatMap(dup, tr) \o FlatMap(arcErr, ar)

\* raise PNMLParserError(...) inside the loop
Raise(line) ==
    /\ exc' = <<line>>
    /\ ppc' = "raised"
    /\ UNCHANGED <<idx, places, transitions, arcs>>

\* one pass through the body of `for elem in root.iter()`
ParseElement ==
    /\ ppc = "parsing"
    /\ idx <= Len(root)
    /\ LET elem == root[idx]
       IN  IF elem.tag = "place"
           THEN IF elem.id = NoAttr
                THEN Raise("A place is missing the 'id' attribute.")
                ELSE IF elem.id \in Ids(places)
                THEN Raise("Duplicate place id: " \o elem.id)
                ELSE IF elem.text # NoText /\ elem.text \notin DOMAIN IntValue
                THEN Raise("initialMarking of place " \o elem.id
                               \o " is not an integer: '" \o elem.text \o "'")
                ELSE /\ places' = Append(places,
                            [id |-> elem.id,
                             initial_marking |->
                                IF elem.text = NoText THEN 0 ELSE IntValue[elem.text]])
                     /\ idx' = idx + 1
                     /\ UNCHANGED <<transitions, arcs, ppc, exc>>
           ELSE IF elem.tag = "transition"
           THEN IF elem.id = NoAttr
                THEN Raise("A transition is missing the 'id' attribute.")
                ELSE IF elem.id \in Ids(transitions)
                THEN Raise("Duplicate transition id: " \o elem.id)
                ELSE /\ transitions' = Append(transitions, [id |-> elem.id])
                     /\ idx' = idx + 1
                     /\ UNCHANGED <<places, arcs, ppc, exc>>
           ELSE IF NoAttr \in {elem.id, elem.source, elem.target}
                THEN Raise("An arc is missing one of the attributes: id / source / target.")
                ELSE /\ arcs' = Append(arcs, [id |-> elem.id, source |-> elem.source,
                                              target |-> elem.target])
                     /\ idx' = idx + 1
                     /\ UNCHANGED <<places, transitions, ppc, exc>>
    /\ UNCHANGED <<root, svars>>

\* the end of parse_pnml: net.validate() and return net
ParseReturn ==
    /\ ppc = "parsing"
    /\ idx > Len(root)
    /\ exc' = validate(places, transitions, arcs)
    /\ ppc' = IF exc' # <<>> THEN "raised" ELSE "returned"
    /\ UNCHANGED <<root, idx, places, transitions, arcs, svars>>

\* no call of parse_pnml is modelled
ParserOff ==
    /\ root = <<>> /\ idx = 0
    /\ places = <<>> /\ transitions = <<>> /\ arcs = <<>>
    /\ ppc = "off" /\ exc = <<>>

\* --------------------------------------------------------------- actions
Init ==
    /\ \E P \in PlaceIdSets, Tr \in TransIdSets :
          \E A \in SubsetsUpTo(ValidArcs(P, Tr), MaxArcs), tok \in [P -> TokenCounts] :
              net = [places |-> [p \in P |-> [initial_marking |-> tok[p]]],
                     transitions |-> Tr,
                     arcs |-> A]
    /\ cls \in {"HybridSolver", "OptimizationSolver", "BDDSolver"}
    /\ pc = "idle"
    /\ op = "none"
    /\ reachable_bdd = <<>>
    /\ R = {}
    /\ T = {}
    /\ iterations = 0
    /\ count = 0
    /\ weights = <<>>
    /\ prob = NoProb
    /\ attempts = 0
    /\ cands = <<>>
    /\ ret = None
    /\ ParserOff

\* lines of compute_reachable_set before its loop
ComputePrelude ==
    /\ R' = build_initial_marking_expr
    /\ T' = build_transition_relation_expr
    /\ iterations' = 0
    /\ pc' = "fixpoint"

\* direct call of compute_reachable_set (HybridSolver, OptimizationSolver)
\* or compute_reachable (BDDSolver)
compute_reachable_set ==
    /\ pc = "idle"
    /\ op' = "compute"
    /\ ComputePrelude
    /\ prob' = NoProb /\ attempts' = 0 /\ cands' = <<>> /\ ret' = None
    /\ weights' = <<>>
    /\ UNCHANGED <<net, cls, reachable_bdd, count>>
    /\ UNCHANGED pvars

\* find_deadlock that drops the cache and computes again on every call
find_deadlock_ClearsCache ==
    /\ pc = "idle"
    /\ cls = "HybridSolver"
    /\ op' = "find_deadlock"
    /\ attempts' = 0 /\ cands' = <<>>
    /\ ComputePrelude
    /\ prob' = NoProb
    /\ reachable_bdd' = <<>>
    /\ ret' = None
    /\ weights' = <<>>
    /\ UNCHANGED <<net, cls, count>>
    /\ UNCHANGED pvars

\* call of find_deadlock up to the first loop head it reaches
find_deadlock ==
    /\ pc = "idle"
    /\ cls = "HybridSolver"
    /\ op' = "find_deadlock"
    /\ attempts' = 0 /\ cands' = <<>>
    /\ IF reachable_bdd = <<>>
       THEN /\ ComputePrelude
            /\ prob' = NoProb
       ELSE /\ prob' = DeadlockProblem
            /\ pc' = "solve"
            /\ UNCHANGED <<R, T, iterations>>
    /\ ret' = None
    /\ weights' = <<>>
    /\ UNCHANGED <<net, cls, reachable_bdd, count>>
    /\ UNCHANGED pvars

\* call of optimize_marking(w) up to the first loop head it reaches
optimize_marking ==
    /\ pc = "idle"
    /\ cls = "OptimizationSolver"
    /\ \E w \in WeightMaps :
          /\ weights' = w
          /\ IF reachable_bdd = <<>>
             THEN /\ ComputePrelude
                  /\ prob' = NoProb
             ELSE /\ prob' = OptimizeProblem(w)
                  /\ pc' = "solve"
                  /\ UNCHANGED <<R, T, iterations>>
    /\ op' = "optimize_marking"
    /\ attempts' = 0 /\ cands' = <<>> /\ ret' = None
    /\ UNCHANGED <<net, cls, reachable_bdd, count>>
    /\ UNCHANGED pvars

\* what follows the loop of compute_reachable_set once R_new == R
AfterFixpoint ==
    /\ count' = Count(R, Len(vars))
    /\ IF cls = "BDDSolver"
       THEN /\ ret' = RetBdd(R)
            /\ pc' = "idle"
            /\ UNCHANGED <<reachable_bdd, prob>>
       ELSE /\ reachable_bdd' = <<R>>
            /\ IF op = "find_deadlock"
               THEN prob' = DeadlockProblem /\ pc' = "solve" /\ UNCHANGED ret
               ELSE IF op = "optimize_marking"
               THEN prob' = OptimizeProblem(weights) /\ pc' = "solve" /\ UNCHANGED ret
               ELSE /\ ret' = IF cls = "HybridSolver" THEN RetCount(Count(R, Len(vars))) ELSE None
                    /\ pc' = "idle"
                    /\ UNCHANGED prob

\* one pass through the body of the fixed-point loop
FixpointIteration ==
    /\ pc = "fixpoint"
    /\ iterations' = iterations + 1
    /\ LET rel_and_curr == And(R, T)
           next_s_prime == Exist(VarSet, rel_and_curr)
       IN  IF ~RenameValid(next_s_prime, rename_map)
           THEN /\ pc' = "error"
                /\ UNCHANGED <<R, reachable_bdd, count, prob, ret>>
           ELSE LET next_s == Rename(next_s_prime, rename_map)
                    R_new == Or(R, next_s)
                IN  IF R_new = R
                    THEN /\ AfterFixpoint
                         /\ UNCHANGED R
                    ELSE /\ R' = R_new
                         /\ pc' = "fixpoint"
                         /\ UNCHANGED <<reachable_bdd, count, prob, ret>>
    /\ UNCHANGED <<net, cls, op, T, weights, attempts, cands>>
    /\ UNCHANGED pvars

\* one pass through the solve/test/exclude loop of find_deadlock or
\* optimize_marking
SolveBody ==
    /\ attempts' = attempts + 1
    /\ IF Feasible(prob) = {}
       THEN /\ ret' = None
            /\ pc' = "idle"
            /\ UNCHANGED <<prob, cands>>
       ELSE \E candidate_marking \in Optimal(prob) :
               /\ cands' = Append(cands, candidate_marking)
               /\ IF IsReachableCandidate(candidate_marking)
                  THEN /\ ret' = RetMarking(candidate_marking)
                       /\ pc' = "idle"
                       /\ UNCHANGED prob
                  ELSE /\ prob' = AddCut(prob, candidate_marking)
                       /\ pc' = "solve"
                       /\ UNCHANGED ret
    /\ UNCHANGED <<net, cls, op, reachable_bdd, R, T, iterations, count, weights>>
    /\ UNCHANGED pvars

DeadlockIteration ==
    /\ pc = "solve"
    /\ op = "find_deadlock"
    /\ SolveBody

OptimizeIteration ==
    /\ pc = "solve"
    /\ op = "optimize_marking"
    /\ SolveBody

Next ==
    \/ compute_reachable_set
    \/ find_deadlock
    \/ optimize_marking
    \/ FixpointIteration
    \/ DeadlockIteration
    \/ OptimizeIteration

Spec == Init /\ [][Next]_allvars

\* ------------------------------------------- specification of parse_pnml
\* no engine is constructed while the description is read
EngineOff ==
    /\ net = [places |-> <<>>, transitions |-> {}, arcs |-> {}]
    /\ cls = "none" /\ pc = "off" /\ op = "none"
    /\ reachable_bdd = <<>> /\ R = {} /\ T = {}
    /\ iterations = 0 /\ count = 0
    /\ weights = <<>> /\ prob = NoProb
    /\ attempts = 0 /\ cands = <<>> /\ ret = None

\* parse_pnml(path) entered, the file read into its element tree
ParseInit ==
    /\ root \in Documents
    /\ idx = 1
    /\ places = <<>> /\ transitions = <<>> /\ arcs = <<>>
    /\ ppc = "parsing"
    /\ exc = <<>>
    /\ EngineOff

ParseNext ==
    \/ ParseElement
    \/ ParseReturn

SpecParse == ParseInit /\ [][ParseNext]_allvars

\* ------------------------------------------------------- net semantics
\* Preset(t), Postset(t) and the firing rule, read off the arcs
Pre(t) == {p \in Places : [source |-> p, target |-> t] \in net.arcs}
Post(t) == {p \in Places : [source |-> t, target |-> p] \in net.arcs}
EnabledAt(t, m) == Pre(t) \subseteq m
Fire(m, t) == (m \ Pre(t)) \cup Post(t)

RECURSIVE FiringClosure(_)
FiringClosure(S) ==
    LET S2 == S \cup {Fire(e[1], e[2]) :
                        e \in {f \in S \X net.transitions : EnabledAt(f[2], f[1])}}
    IN  IF S2 = S THEN S ELSE FiringClosure(S2)

\* markings reachable from the binarised initial marking
ReachableMarkings == FiringClosure({InitialMarking})

\* no transition of the net is enabled at m
Dead(m) == \A t \in net.transitions : ~EnabledAt(t, m)

\* the reachable-set BDDs the engine holds: the cache, and the value
\* compute_reachable returned
ProducedBdds ==
    (IF reachable_bdd # <<>> THEN {reachable_bdd[1]} ELSE {})
        \cup (IF ret.kind = "bdd" THEN {ret.val} ELSE {})

Returned(o) == pc = "idle" /\ op = o

\* objective value of a candidate under the problem's objective
ObjValue(x) == LinValue(prob.objective, x)

\* weighted sum of the marked places of m under the call's weights
WeightOf(m) == SumOver(m, [p \in m |-> Get(weights, p, 0)])

\* the problem as built before the loop, and the cuts added since
BaseProblem == IF op = "find_deadlock" THEN DeadlockProblem ELSE OptimizeProblem(weights)
InSearch == op \in {"find_deadlock", "optimize_marking"} /\ prob # NoProb
NumCuts == Len(prob.constraints) - Len(BaseProblem.constraints)

\* ----------------------------------------------------------------- claims

\* C1: the reachable set produced by the symbolic fixed-point loop has as
\* satisfying assignments exactly the markings find_reachable_markings_bfs
\* returns from the same initial marking, and the reported count is the
\* number of BFS markings.
C1_SymbolicEqualsBfs ==
    \A u \in ProducedBdds :
        /\ u = {a \in Assignments : a \cap VarSet \in BfsReachable}
        /\ count = Cardinality(BfsReachable)

C1_Witness ==
    /\ reachable_bdd # <<>>
    /\ iterations >= 3
    /\ Cardinality(BfsReachable) >= 3
    /\ net.places["p0"].initial_marking = 2

\* C2: a marking returned by find_deadlock is reachable and enables no
\* transition of the net.
C2_DeadlockReachableAndDead ==
    (Returned("find_deadlock") /\ ret.kind = "marking")
        => /\ Ones(ret.val) \in ReachableMarkings
           /\ Dead(Ones(ret.val))

\* C3: on a net with a transition whose preset is empty, find_deadlock
\* never returns a marking.
C3_EmptyPresetNoDeadlock ==
    (\E t \in net.transitions : Pre(t) = {})
        => ~(Returned("find_deadlock") /\ ret.kind = "marking")

\* C4: find_deadlock returns None only if no reachable marking disables
\* every transition.
C4_NoneOnlyIfNoDeadMarking ==
    (Returned("find_deadlock") /\ ret.kind = "None")
        => ~(\E m \in ReachableMarkings : Dead(m))

C4_Witness ==
    /\ Returned("find_deadlock")
    /\ ret.kind = "None"
    /\ attempts >= 3

\* C5: the marking optimize_marking(weights) returns is reachable and its
\* weighted sum is at least that of every reachable marking.
C5_OptimalReachable ==
    (Returned("optimize_marking") /\ ret.kind = "marking")
        => /\ Ones(ret.val) \in ReachableMarkings
           /\ \A m \in ReachableMarkings : WeightOf(m) <= WeightOf(Ones(ret.val))

\* scenario B: p0 marked, t0 moves the token to p1, weights {p0: 1, p1: 5}
C5_Witness ==
    /\ Returned("optimize_marking")
    /\ Places = {"p0", "p1"}
    /\ InitialMarking = {"p0"}
    /\ net.transitions = {"t0"}
    /\ net.arcs = {[source |-> "p0", target |-> "t0"], [source |-> "t0", target |-> "p1"]}
    /\ weights = [p \in {"p0", "p1"} |-> IF p = "p0" THEN 1 ELSE 5]
    /\ ret = RetMarking([p \in {"p0", "p1"} |-> IF p = "p0" THEN 0 ELSE 1])

\* C6 as stated: the objective values of the successive candidates of one
\* run are strictly decreasing.
C6_StrictlyDecreasing ==
    InSearch =>
        \A i \in 1..(Len(cands) - 1) : ObjValue(cands[i + 1]) < ObjValue(cands[i])

\* C6 amended: the objective values of the successive candidates of one run
\* never increase.
C6_NonIncreasing ==
    InSearch =>
        \A i \in 1..(Len(cands) - 1) : ObjValue(cands[i + 1]) <= ObjValue(cands[i])

C6_Witness ==
    /\ InSearch
    /\ Len(cands) >= 3
    /\ ObjValue(cands[2]) = ObjValue(cands[1])
    /\ ObjValue(cands[3]) < ObjValue(cands[2])

\* C7: within one run no candidate is returned twice, every excluded
\* candidate stays infeasible, and the feasible set is the structural one
\* less exactly one point per cut.
C7_NoRevisit ==
    InSearch =>
        /\ \A i, j \in 1..Len(cands) : i # j => cands[i] # cands[j]
        /\ \A i \in 1..NumCuts : cands[i] \notin Feasible(prob)
        /\ Cardinality(Feasible(prob)) = Cardinality(Feasible(BaseProblem)) - NumCuts

C7_Witness ==
    /\ InSearch
    /\ NumCuts >= 2
    /\ Len(cands) > NumCuts

\* C8: the solve/test/exclude loop makes at most 2^|places| solver calls,
\* the last one included, and then ends: the count of solver calls never
\* exceeds 2^|places|, and every pass through the loop can be taken and
\* adds one to it.
C8_SolveLoopBounded ==
    /\ [](attempts <= Pow2(Cardinality(Places)))
    /\ [](pc = "solve" => ENABLED (DeadlockIteration \/ OptimizeIteration))
    /\ [][pc = "solve" => attempts' = attempts + 1]_svars

C8_Witness ==
    /\ pc = "idle"
    /\ Cardinality(Places) = 2
    /\ attempts = Pow2(Cardinality(Places))

\* C9: the body of the symbolic fixed-point loop runs at most 2^|places|
\* times, the iteration that detects the fixed point included, and the
\* loop ends: the count of iterations never exceeds 2^|places|, and every
\* pass through the loop adds one to it.
C9_FixpointBounded ==
    /\ [](iterations <= Pow2(Cardinality(Places)))
    /\ [][pc = "fixpoint" => iterations' = iterations + 1]_svars

C9_Witness ==
    /\ reachable_bdd # <<>>
    /\ Cardinality(Places) = 2
    /\ iterations = Pow2(Cardinality(Places))

\* C10: the final reachable set is closed under firing: with m it holds
\* (m minus Preset(t)) union Postset(t) for every t enabled at m.
C10_FiringClosed ==
    /\ \A u \in ProducedBdds :
          \A m \in Markings(u), t \in net.transitions :
              EnabledAt(t, m) => Fire(m, t) \in Markings(u)
    /\ \A m \in BfsReachable, t \in net.transitions :
          EnabledAt(t, m) => Fire(m, t) \in BfsReachable

C10_Witness ==
    /\ reachable_bdd # <<>>
    /\ \E m \in Markings(reachable_bdd[1]), t \in net.transitions :
          /\ EnabledAt(t, m)
          /\ m # InitialMarking
          /\ Fire(m, t) \notin {m, InitialMarking}

\* a step that enters the fixed-point loop, and the mark a finished run
\* of the loop leaves behind (the cache, or the BDD compute_reachable
\* returned)
LoopStarts == pc # "fixpoint" /\ pc' = "fixpoint"
LoopCompleted == reachable_bdd # <<>> \/ ret.kind = "bdd"

\* C11: on one engine instance the fixed-point loop runs at most once: no
\* call enters the loop after a run of the loop has completed.
C11_FixpointAtMostOnce == [][LoopStarts => ~LoopCompleted]_svars

\* the part of C11 the code keeps: find_deadlock and optimize_marking enter
\* the loop only while the cache is None
LazyCallsReuseCache ==
    [][(LoopStarts /\ op' \in {"find_deadlock", "optimize_marking"})
          => reachable_bdd = <<>>]_svars

\* C12: once the cached reachable set has been written no step changes it
\* or resets it to None, and no step changes the net (places, transitions,
\* arcs, and with them presets and postsets).
C12_CacheWriteOnce ==
    [][/\ reachable_bdd # <<>> => reachable_bdd' = reachable_bdd
       /\ net' = net
       /\ preset' = preset /\ postset' = postset]_svars

\* find_deadlock or optimize_marking has returned a marking on an engine
\* whose cache is written
C12_Witness ==
    /\ reachable_bdd # <<>>
    /\ op \in {"find_deadlock", "optimize_marking"}
    /\ pc = "idle"
    /\ ret.kind = "marking"
    /\ Cardinality(Markings(reachable_bdd[1])) >= 2

\* --------------------------------------------- claims about parse_pnml
Range(seq) == {seq[i] : i \in DOMAIN seq}
ParseDone == ppc \in {"returned", "raised"}

\* the description read off the document itself
PlaceIdx == {i \in DOMAIN root : root[i].tag = "place"}
TransIdx == {i \in DOMAIN root : root[i].tag = "transition"}
ArcIdx == {i \in DOMAIN root : root[i].tag = "arc"}
DocPlaceIds == {root[i].id : i \in PlaceIdx}
DocTransIds == {root[i].id : i \in TransIdx}

\* every attribute is present and every marking text is an integer
WellFormedAttrs ==
    /\ \A i \in PlaceIdx \cup TransIdx : root[i].id # NoAttr
    /\ \A i \in ArcIdx : NoAttr \notin {root[i].id, root[i].source, root[i].target}
    /\ \A i \in PlaceIdx : root[i].text = NoText \/ root[i].text \in DOMAIN IntValue

\* the structural violations of the description: an id used twice, an arc
\* end that names no node, an arc between two nodes of one type
Violations ==
    {[kind |-> "duplicate", at |-> i] : i \in {j \in PlaceIdx \cup TransIdx :
            \E k \in PlaceIdx \cup TransIdx : k < j /\ root[k].id = root[j].id}}
    \cup {[kind |-> "dangling source", at |-> i] : i \in {j \in ArcIdx :
            root[j].source \notin DocPlaceIds \cup DocTransIds}}
    \cup {[kind |-> "dangling target", at |-> i] : i \in {j \in ArcIdx :
            root[j].target \notin DocPlaceIds \cup DocTransIds}}
    \cup {[kind |-> "same type", at |-> i] : i \in {j \in ArcIdx :
            \/ {root[j].source, root[j].target} \subseteq DocPlaceIds
            \/ {root[j].source, root[j].target} \subseteq DocTransIds}}

\* some line of the error raised reports violation v
Lists(lines, v) ==
    LET e == root[v.at]
    IN  CASE v.kind = "duplicate" ->
               \E l \in Range(lines) :
                   l \in {"Duplicate place id: " \o e.id,
                          "Duplicate transition id: " \o e.id,
                          "Duplicate id between place and transition: " \o e.id}
          [] v.kind = "dangling source" ->
               ("Arc " \o e.id \o " refers to non-existing source node '"
                    \o e.source \o "'.") \in Range(lines)
          [] v.kind = "dangling target" ->
               ("Arc " \o e.id \o " refers to non-existing target node '"
                    \o e.target \o "'.") \in Range(lines)
          [] v.kind = "same type" ->
               \E ty \in {"place", "transition"} :
                   ("Arc " \o e.id \o " connects two " \o ty \o "s ("
                       \o e.source \o " -> " \o e.target
                       \o "), which is not valid in a Petri net.") \in Range(lines)

\* C13: a description with several structural violations (and no other
\* defect) is refused with one error that lists every one of them.
C13_AllViolationsListed ==
    (ParseDone /\ WellFormedAttrs /\ Cardinality(Violations) >= 2)
        => /\ ppc = "raised"
           /\ \A v \in Violations : Lists(exc, v)

\* the part of C13 the code keeps: every violation that is not a repeated
\* place id or a repeated transition id is listed when validate is reached
ValidateAggregates ==
    (ppc = "raised" /\ idx > Len(root))
        => \A v \in Violations : Lists(exc, v)

\* the data-model invariants of a net, less the sign of the markings
StructureValid(pl, tr, ar) ==
    /\ \A i, j \in DOMAIN pl : pl[i].id = pl[j].id => i = j
    /\ \A i, j \in DOMAIN tr : tr[i].id = tr[j].id => i = j
    /\ Ids(pl) \cap Ids(tr) = {}
    /\ \A i \in DOMAIN ar :
          /\ {ar[i].source, ar[i].target} \subseteq Ids(pl) \cup Ids(tr)
          /\ (ar[i].source \in Ids(pl)) # (ar[i].target \in Ids(pl))

\* C14: every net parse_pnml returns has unique place ids, unique
\* transition ids disjoint from the place ids, arcs with two existing ends
\* of which exactly one is a place, and non-negative initial markings.
C14_ReturnedNetValid ==
    ppc = "returned"
        => /\ StructureValid(places, transitions, arcs)
           /\ \A i \in DOMAIN places : places[i].initial_marking \in Nat

\* the part of C14 the code keeps: the structure of a returned net
ReturnedStructureValid ==
    ppc = "returned" => StructureValid(places, transitions, arcs)

ReturnedNetWithArcs ==
    ppc = "returned" /\ Len(arcs) >= 1

\* the description has no place or no transition
Degenerate == PlaceIdx = {} \/ TransIdx = {}

\* C15: a degenerate net, with no places or no transitions and no other
\* defect, does not end in an error: it is handed on and yields its
\* trivial reachable set.
C15_DegenerateTrivial ==
    (ParseDone /\ Degenerate /\ WellFormedAttrs /\ Violations = {})
        => ppc = "returned"

\* what the code does instead: every degenerate description is refused,
\* by validate with the line that names the missing part when the element
\* loop got through
DegenerateRejected ==
    (ParseDone /\ Degenerate)
        => /\ ppc = "raised"
           /\ idx > Len(root) =>
                 /\ PlaceIdx = {} => "The net has no places." \in Range(exc)
                 /\ TransIdx = {} => "The net has no transitions." \in Range(exc)

\* C16: called with an empty weight mapping, optimize_marking returns a
\* reachable marking with the largest number of marked places among all
\* reachable markings.
C16_EmptyWeightsUnweighted ==
    (Returned("optimize_marking") /\ ret.kind = "marking" /\ DOMAIN weights = {})
        => /\ Ones(ret.val) \in ReachableMarkings
           /\ \A m \in ReachableMarkings : Cardinality(m) <= Cardinality(Ones(ret.val))

\* what the code does instead: the objective built from an empty mapping
\* is zero on every place, and the marking returned is reachable
EmptyWeightsZeroObjective ==
    (op = "optimize_marking" /\ prob # NoProb /\ DOMAIN weights = {})
        => /\ \A p \in Places : prob.objective[p] = 0
           /\ (Returned("optimize_marking") /\ ret.kind = "marking")
                 => Ones(ret.val) \in ReachableMarkings

\* w restricted to the net's places
Restricted(w) == [p \in DOMAIN w \cap Places |-> w[p]]

\* C17: the objective optimize_marking(w) maximises gives every place of
\* the net its weight in w, or 0 if w has none, and nothing else: it is
\* the objective of w restricted to the net's places, and the marking
\* returned is optimal among the reachable ones under the restricted w.
C17_UnknownKeysIgnored ==
    (op = "optimize_marking" /\ prob # NoProb)
        => /\ DOMAIN prob.objective = Places
           /\ \A p \in Places :
                 prob.objective[p] = IF p \in DOMAIN weights THEN weights[p] ELSE 0
           /\ OptimizeProblem(weights) = OptimizeProblem(Restricted(weights))
           /\ (Returned("optimize_marking") /\ ret.kind = "marking")
                 => \A m \in ReachableMarkings :
                       SumOver(m, [p \in m |-> Get(Restricted(weights), p, 0)])
                          <= SumOver(Ones(ret.val),
                                [p \in Ones(ret.val) |-> Get(Restricted(weights), p, 0)])

\* main's mapping {p1: 5, p2: 10} on a net with places p0 and p1: p2 is no
\* place, p0 has no weight, and the marking returned marks p1 only
C17_Witness ==
    /\ Returned("optimize_marking")
    /\ Places = {"p0", "p1"}
    /\ weights = ("p1" :> 5) @@ ("p2" :> 10)
    /\ ret = RetMarking([p \in {"p0", "p1"} |-> IF p = "p1" THEN 1 ELSE 0])
    /\ Len(cands) >= 2

\* scenario A: places p0 and p1, p0 holds one token, t0 moves it to p1
ScenarioA ==
    net = [places |-> [p \in {"p0", "p1"} |->
                          [initial_marking |-> IF p = "p0" THEN 1 ELSE 0]],
           transitions |-> {"t0"},
           arcs |-> {[source |-> "p0", target |-> "t0"],
                     [source |-> "t0", target |-> "p1"]}]

\* C18: on scenario A the reachable set is exactly {{p0}, {p1}}, the count
\* is 2, and find_deadlock returns {p0: 0, p1: 1}.
C18_ScenarioA ==
    ScenarioA =>
        /\ \A u \in ProducedBdds : Markings(u) = {{"p0"}, {"p1"}} /\ count = 2
        /\ (Returned("compute") /\ cls = "HybridSolver") => ret = RetCount(2)
        /\ Returned("find_deadlock")
              => ret = RetMarking([p \in {"p0", "p1"} |-> IF p = "p1" THEN 1 ELSE 0])

C18_Witness ==
    /\ ScenarioA
    /\ Returned("find_deadlock")
    /\ reachable_bdd # <<>>
    /\ ret.kind = "marking"

\* C19: every iterate of the fixed-point loop contains the previous one,
\* and the initial marking belongs to every iterate and to the final
\* reachable set.
C19_MonotoneIterates ==
    /\ [][(pc = "fixpoint" /\ pc' # "error") => R \subseteq R']_svars
    /\ [](pc = "fixpoint" => MarkingBdd(InitialMarking) \subseteq R)
    /\ [](\A u \in ProducedBdds : InitialMarking \in Markings(u))

\* the loop has grown the set twice and the set is final
C19_Witness ==
    /\ reachable_bdd # <<>>
    /\ iterations >= 3
    /\ Cardinality(Markings(reachable_bdd[1])) >= 3
    /\ InitialMarking \in Markings(reachable_bdd[1])

\* the current marking and the next marking an assignment of the declared
\* variables stands for
CurrentOf(a) == {p \in Places : p \in a}
NextOf(a) == {p \in Places : NextVar(p) \in a}

\* the firing relation as a set of assignments
FiringRelation ==
    {a \in Assignments :
        \E t \in net.transitions :
            /\ EnabledAt(t, CurrentOf(a))
            /\ NextOf(a) = Fire(CurrentOf(a), t)}

\* the variable names of the engine are pairwise distinct
DistinctVars == VarSet \cap NextVarSet = {}

\* C20: the encoded transition relation relates m to m' exactly when some
\* transition t has Preset(t) within m and m' = (m minus Preset(t)) union
\* Postset(t); a transition with an empty preset is enabled in every m.
C20_RelationIsFiring ==
    pc = "fixpoint" =>
        /\ T = FiringRelation
        /\ \A t \in net.transitions :
              Pre(t) = {} =>
                 \A m \in SUBSET Places :
                     \E a \in T : CurrentOf(a) = m /\ NextOf(a) = Fire(m, t)

\* the part of C20 the code keeps: the relation is the firing relation on
\* every net whose variable names are pairwise distinct
RelationIsFiringIfDistinct == DistinctVars => C20_RelationIsFiring

\* the 0/1 assignment x satisfies the linear constraint c
Satisfies(x, c) == LinValue(c.coef, x) <= c.rhs

\* C21: the no-good cut of a candidate a is violated by a and satisfied by
\* every other 0/1 assignment over the places, all zeros and all ones
\* included; so is every cut the loop has added for its rejected
\* candidates.
C21_CutExcludesExactlyOne ==
    /\ \A a, x \in BinaryAssignments : Satisfies(x, CutConstraint(a)) <=> x # a
    /\ InSearch =>
          \A i \in 1..NumCuts :
              LET cut == prob.constraints[Len(BaseProblem.constraints) + i]
              IN  \A x \in BinaryAssignments : Satisfies(x, cut) <=> x # cands[i]

\* one run has cut the all-ones candidate and the all-zeros candidate
C21_Witness ==
    /\ InSearch
    /\ Cardinality(Places) = 2
    /\ \E i, j \in 1..NumCuts :
          /\ Ones(cands[i]) = Places
          /\ Ones(cands[j]) = {}

\* the initial marking as a 0/1 assignment
InitialAssignment == [p \in Places |-> IF p \in InitialMarking THEN 1 ELSE 0]

\* C22: optimize_marking never returns None: it returns a reachable
\* marking, and while it searches the initial marking stays feasible, no
\* cut having excluded it.
C22_OptimizeNeverNone ==
    /\ Returned("optimize_marking")
          => ret.kind = "marking" /\ Ones(ret.val) \in ReachableMarkings
    /\ (op = "optimize_marking" /\ prob # NoProb)
          => /\ InitialAssignment \in Feasible(prob)
             /\ \A i \in 1..NumCuts : Ones(cands[i]) \notin ReachableMarkings

\* every other assignment has been cut and the last solve returned the
\* initial marking
C22_Witness ==
    /\ Returned("optimize_marking")
    /\ Cardinality(Places) = 2
    /\ NumCuts = Pow2(Cardinality(Places)) - 1
    /\ ret = RetMarking(InitialAssignment)

\* m satisfies the structural deadlock constraints: every transition with
\* a non-empty preset is disabled at m
StructurallyDead(m) ==
    \A t \in net.transitions : Pre(t) # {} => ~EnabledAt(t, m)

\* C23: a marking find_deadlock returns is reachable, satisfies the
\* structural deadlock constraints, and no reachable marking satisfying
\* them has strictly more marked places.
C23_DensestDeadMarking ==
    (Returned("find_deadlock") /\ ret.kind = "marking")
        => /\ Ones(ret.val) \in ReachableMarkings
           /\ StructurallyDead(Ones(ret.val))
           /\ \A m \in ReachableMarkings :
                 StructurallyDead(m) => Cardinality(m) <= Cardinality(Ones(ret.val))

\* a denser candidate was cut first, and a sparser reachable marking that
\* satisfies the constraints was passed over
C23_Witness ==
    /\ Returned("find_deadlock")
    /\ ret.kind = "marking"
    /\ NumCuts >= 1
    /\ \E m \in ReachableMarkings :
          StructurallyDead(m) /\ Cardinality(m) < Cardinality(Ones(ret.val))

\* C24: the 2*|places| variables the engine declares are pairwise
\* distinct: no next-state name equals a current-state name, the two sets
\* are disjoint, and rename_map maps the next-state variables one-to-one
\* onto the current-state variables.
C24_VariablesDistinct ==
    /\ Cardinality(Declared) = 2 * Cardinality(Places)
    /\ \A p, q \in Places : NextVar(p) # q
    /\ DistinctVars
    /\ DOMAIN rename_map = NextVarSet
    /\ {rename_map[v] : v \in NextVarSet} = VarSet
    /\ \A v, w \in NextVarSet : rename_map[v] = rename_map[w] => v = w

\* the part of C24 the code keeps: the names are distinct on every net in
\* which no place id is another place id followed by "_p", and rename_map
\* is one-to-one onto the current-state variables on every net
DistinctUnlessSuffixed ==
    /\ (\A p, q \in Places : NextVar(p) # q)
          => Cardinality(Declared) = 2 * Cardinality(Places) /\ DistinctVars
    /\ {rename_map[v] : v \in NextVarSet} = VarSet
    /\ \A v, w \in NextVarSet : rename_map[v] = rename_map[w] => v = w

====
